---- MODULE Spec2Model ----
(***************************************************************************)
(* Model of find_cars.py: the CarFinder detection pipeline (window search, *)
(* per-frame heatmap, bounded heatmap history, dual thresholds, labelled   *)
(* region extraction).                                                     *)
(*                                                                         *)
(* Heat, scores and thresholds are fixed-point integers in units of 1/4    *)
(* (score 1.0 = 4, threshold 0.5 = 2).  Fractions such as the window       *)
(* overlap and scale are pairs <<numerator, denominator>>.  A pixel is     *)
(* <<y, x>> (row, column), a Rectangle is <<<<x0, y0>>, <<x1, y1>>>> as in *)
(* the source.                                                             *)
(***************************************************************************)
EXTENDS Integers, Sequences, FiniteSets, TLC

VARIABLES
    \* CarFinder fields (find_cars.py:92-96)
    heatmap_history, thresh_low, thresh_high, max_frame_heat, nlast_heatmaps,
    \* locals of the last find_cars call (find_cars.py:102-143)
    single, clf_answers, windows, window_scores, current_heatmap, heatmap,
    heat_thresh_low, heat_thresh_high, bboxes,
    \* history of the run: number of find_cars calls, capped heatmaps of the
    \* streaming calls in arrival order
    ncalls, frames,
    \* one window_search_cars call: arguments, position, results
    ws_in, ws_pc, ws_step, ws_blocks, ws_positions

vars == <<heatmap_history, thresh_low, thresh_high, max_frame_heat, nlast_heatmaps,
          single, clf_answers, windows, window_scores, current_heatmap,
          heatmap,
          heat_thresh_low, heat_thresh_high, bboxes, ncalls, frames,
          ws_in, ws_pc, ws_step, ws_blocks, ws_positions>>

finder_vars == <<heatmap_history, thresh_low, thresh_high, max_frame_heat, nlast_heatmaps,
          single, clf_answers, windows, window_scores, current_heatmap,
          heatmap,
          heat_thresh_low, heat_thresh_high, bboxes, ncalls, frames>>

ws_vars == <<ws_in, ws_pc, ws_step, ws_blocks, ws_positions>>

----------------------------------------------------------------------------
\* Bounds of the model.

\* find_cars calls per run
MaxCalls == 2
\* largest history capacity a CarFinder is constructed with
MaxHistory == 2
\* largest block grid (per axis) handed to one window search
MaxBlocks == 9

----------------------------------------------------------------------------
\* Arithmetic helpers.

Min(a, b) == IF a < b THEN a ELSE b

Max(a, b) == IF a > b THEN a ELSE b

\* Python's a // b for b > 0 (floor division, also for negative a)
FloorDiv(a, b) == IF a >= 0 THEN a \div b ELSE -((-a + b - 1) \div b)

\* Python's int(n / d) for n >= 0, d > 0 (truncation)
IntOf(n, d) == n \div d

\* Python's round(n / d) for n >= 0, d > 0 (round half to even)
RoundOf(n, d) ==
    LET q == n \div d
        r == n % d
    IN  IF 2 * r < d THEN q
        ELSE IF 2 * r > d THEN q + 1
        ELSE IF q % 2 = 0 THEN q ELSE q + 1

----------------------------------------------------------------------------
\* window_search_cars (find_cars.py:155-229).  fvb is the feature vector
\* builder: [window_size, pixels_per_cell_edge, cells_per_block_edge].

cells_per_window_edge(fvb) == fvb.window_size \div fvb.pixels_per_cell_edge

blocks_per_window_edge(fvb) == cells_per_window_edge(fvb) - fvb.cells_per_block_edge + 1

\* int((1 - window_overlap) * cells_per_window_edge), overlap = <<num, den>>
cells_per_window_step(fvb, window_overlap) ==
    IntOf((window_overlap[2] - window_overlap[1]) * cells_per_window_edge(fvb),
          window_overlap[2])

\* len(range((nblocks - blocks_per_window_edge) // cells_per_window_step)), step # 0
block_steps(nblocks, fvb, step) ==
    Max(0, FloorDiv(nblocks - blocks_per_window_edge(fvb), step))

\* <<xb_begin, yb_begin>> of every window, x in the outer loop, y in the inner
window_blocks(nblocks_x, nblocks_y, fvb, step) ==
    LET nx == block_steps(nblocks_x, fvb, step)
        ny == block_steps(nblocks_y, fvb, step)
    IN  [i \in 1 .. (nx * ny) |->
            LET x_block_step == (i - 1) \div ny
                y_block_step == (i - 1) % ny
            IN  <<x_block_step * step, y_block_step * step>>]

\* the Rectangle of the window whose first block is xyb, in frame coordinates
window_rectangle(xyb, fvb, x_range, y_range, window_scale) ==
    LET x_px_begin == xyb[1] * fvb.pixels_per_cell_edge
        y_px_begin == xyb[2] * fvb.pixels_per_cell_edge
        x_rec_left == IntOf(x_px_begin * window_scale[1], window_scale[2]) + x_range[1]
        y_rec_top == IntOf(y_px_begin * window_scale[1], window_scale[2]) + y_range[1]
        draw_size == IntOf(fvb.window_size * window_scale[1], window_scale[2])
    IN  <<<<x_rec_left, y_rec_top>>, <<x_rec_left + draw_size, y_rec_top + draw_size>>>>

window_positions(nblocks_x, nblocks_y, fvb, x_range, y_range, window_scale, step) ==
    LET blocks == window_blocks(nblocks_x, nblocks_y, fvb, step)
    IN  [i \in 1 .. Len(blocks) |->
            window_rectangle(blocks[i], fvb, x_range, y_range, window_scale)]

\* the indices of the windows the classifier scored above min_score = 0
RECURSIVE desired_indices(_, _)
desired_indices(classification_scores, i) ==
    IF i > Len(classification_scores) THEN <<>>
    ELSE IF classification_scores[i] > 0
         THEN <<i>> \o desired_indices(classification_scores, i + 1)
         ELSE desired_indices(classification_scores, i + 1)

\* desired_windows without the score floor: every window is kept
desired_windows_unfiltered(positions, classification_scores) ==
    [rects |-> positions, mags |-> classification_scores]

\* desired_windows, desired_windows_mag
desired_windows(positions, classification_scores) ==
    LET idx == desired_indices(classification_scores, 1)
    IN  [rects |-> [k \in 1 .. Len(idx) |-> positions[idx[k]]],
         mags |-> [k \in 1 .. Len(idx) |-> classification_scores[idx[k]]]]

----------------------------------------------------------------------------
\* The frame and the collaborators of the modelled run.

\* img.shape[:2] of every frame of the run
FrameH == 4

FrameW == 4

Pixels == (0 .. FrameH - 1) \X (0 .. FrameW - 1)

\* self.fvb: a 2x2 pixel classifier window of 1-pixel cells, 1-cell blocks
Fvb == [window_size |-> 2, pixels_per_cell_edge |-> 1, cells_per_block_edge |-> 1]

\* self.x_range
x_range == <<0, FrameW>>

\* self.search_settings: (ystart, ystop, window_scale, window_overlap)
search_settings ==
    << [ystart |-> 0, ystop |-> FrameH, scale |-> <<1, 1>>, overlap |-> <<1, 2>>],
       [ystart |-> 0, ystop |-> FrameH, scale |-> <<2, 1>>, overlap |-> <<1, 2>>] >>

\* hog_channels[0].shape of the k-th search: the crop resized by 1/scale,
\* one block per pixel
hog_channels_shape(k) ==
    LET st == search_settings[k]
    IN  [nblocks_y |-> IntOf((st.ystop - st.ystart) * st.scale[2], st.scale[1]),
         nblocks_x |-> IntOf((x_range[2] - x_range[1]) * st.scale[2], st.scale[1])]

\* window_positions of the k-th search of a frame
search_positions(k) ==
    LET st == search_settings[k]
        shape == hog_channels_shape(k)
    IN  window_positions(shape.nblocks_x, shape.nblocks_y, Fvb, x_range,
                         <<st.ystart, st.ystop>>, st.scale,
                         cells_per_window_step(Fvb, st.overlap))

\* window_positions of every search of a frame
frame_positions == [k \in 1 .. Len(search_settings) |-> search_positions(k)]

\* the decision scores the classifier can return for a window
Scores == {-4, 4}

\* every classifier answer to the first k searches of a frame
RECURSIVE ClassifierAnswers(_)
ClassifierAnswers(k) ==
    IF k = 0 THEN {<<>>}
    ELSE {Append(p, sc) : p \in ClassifierAnswers(k - 1),
                          sc \in [1 .. Len(frame_positions[k]) -> Scores]}

\* every classifier answer to the searches of one frame
FrameAnswers == ClassifierAnswers(Len(search_settings))

----------------------------------------------------------------------------
\* Heatmaps (find_cars.py:36-41, 117-134).

zeros == [p \in Pixels |-> 0]

\* heatmap[rec[0][1]:rec[1][1], rec[0][0]:rec[1][0]], non-negative bounds
InSlice(p, rec) ==
    /\ rec[1][2] <= p[1] /\ p[1] < rec[2][2]
    /\ rec[1][1] <= p[2] /\ p[2] < rec[2][1]

RECURSIVE gen_heatmap_from(_, _, _, _)
gen_heatmap_from(hm, rectangles, rectangle_heat, i) ==
    IF i > Min(Len(rectangles), Len(rectangle_heat)) THEN hm
    ELSE gen_heatmap_from(
            [p \in Pixels |-> IF InSlice(p, rectangles[i])
                              THEN hm[p] + rectangle_heat[i] ELSE hm[p]],
            rectangles, rectangle_heat, i + 1)

\* gen_heatmap with = in place of +=: the last covering rectangle wins
gen_heatmap_overwrites(rectangles, rectangle_heat) ==
    [p \in Pixels |->
        LET covering == {i \in 1 .. Min(Len(rectangles), Len(rectangle_heat)) :
                            InSlice(p, rectangles[i])}
        IN  IF covering = {} THEN 0
            ELSE rectangle_heat[CHOOSE i \in covering : \A j \in covering : j <= i]]

gen_heatmap(rectangles, rectangle_heat) == gen_heatmap_from(zeros, rectangles, rectangle_heat, 1)

\* current_heatmap[current_heatmap > max_frame_heat] = max_frame_heat
cap_heatmap(hm, cap) == [p \in Pixels |-> IF hm[p] > cap THEN cap ELSE hm[p]]

\* Python's lst[start:] for a list lst
SliceFrom(lst, start) ==
    LET n == Len(lst)
        from == IF start < 0 THEN Max(0, n + start) ELSE Min(start, n)
    IN  SubSeq(lst, from + 1, n)

\* add_to_history trimming from the wrong end: the oldest heatmaps are kept
add_to_history_keeps_oldest(nlast, hm, history) ==
    LET appended == Append(nlast, hm)
    IN  IF Len(appended) > history THEN SubSeq(appended, 1, history) ELSE appended

\* nlast_heatmaps after a streaming call (find_cars.py:124-126)
add_to_history(nlast, hm, history) ==
    LET appended == Append(nlast, hm)
    IN  IF Len(appended) > history THEN SliceFrom(appended, -history) ELSE appended

\* next_history without the single-image branch
next_history_always_appends(nlast, hm, is_single, history) ==
    add_to_history(nlast, hm, history)

\* nlast_heatmaps after a call (find_cars.py:120-126)
next_history(nlast, hm, is_single, history) ==
    IF is_single THEN nlast ELSE add_to_history(nlast, hm, history)

\* sum(self.nlast_heatmaps)
RECURSIVE sum_heatmaps(_, _)
sum_heatmaps(hms, i) ==
    IF i > Len(hms) THEN zeros
    ELSE LET rest == sum_heatmaps(hms, i + 1)
         IN  [p \in Pixels |-> hms[i][p] + rest[p]]

\* the fused heatmap of a call (find_cars.py:120-128)
fused_heatmap(hm, nlast, is_single) ==
    IF is_single THEN hm ELSE sum_heatmaps(nlast, 1)

\* heat_thresh scaled by the configured capacity instead of the history length
heat_thresh_by_capacity(nlast, thresh) == heatmap_history * thresh

\* len(self.nlast_heatmaps) * thresh (find_cars.py:131-132)
heat_thresh(nlast, thresh) == Len(nlast) * thresh

\* heatmap_thresh[heatmap < heat_thresh_low] = 0
threshold_heatmap(hm, low) == [p \in Pixels |-> IF hm[p] < low THEN 0 ELSE hm[p]]

----------------------------------------------------------------------------
\* Region extraction (find_cars.py:44-66, 137-138).

\* neighbours under the default structuring element of scipy's label()
Adjacent(p, q) ==
    \/ p[1] = q[1] /\ (p[2] = q[2] + 1 \/ q[2] = p[2] + 1)
    \/ p[2] = q[2] /\ (p[1] = q[1] + 1 \/ q[1] = p[1] + 1)

RECURSIVE Grow(_, _)
Grow(S, nonzero) ==
    LET T == S \cup {q \in nonzero : \E p \in S : Adjacent(p, q)}
    IN  IF T = S THEN S ELSE Grow(T, nonzero)

\* the position of a pixel in raster (row-major) order
Raster(p) == p[1] * FrameW + p[2]

\* the connected components of the nonzero pixels, in raster order of the
\* first pixel of each
RECURSIVE components_of(_, _)
components_of(nonzero, unlabeled) ==
    IF unlabeled = {} THEN <<>>
    ELSE LET first == CHOOSE p \in unlabeled : \A q \in unlabeled : Raster(p) <= Raster(q)
             comp == Grow({first}, nonzero)
         IN  <<comp>> \o components_of(nonzero, unlabeled \ comp)

\* label(): <<label array, number of labels>>; label ids follow the raster
\* order of the first pixel of each component, 0 is the background
label(hm) ==
    LET nonzero == {q \in Pixels : hm[q] # 0}
        comps == components_of(nonzero, nonzero)
    IN  <<[p \in Pixels |-> IF p \in nonzero
                            THEN CHOOSE i \in 1 .. Len(comps) : p \in comps[i]
                            ELSE 0],
          Len(comps)>>

SetMin(S) == CHOOSE m \in S : \A e \in S : m <= e

SetMax(S) == CHOOSE m \in S : \A e \in S : m >= e

\* the bounding box of the pixels carrying label_id (find_cars.py:55-60)
label_bbox(labels, label_id) ==
    LET pixel_locs == {p \in Pixels : labels[1][p] = label_id}
        pixels_y == {p[1] : p \in pixel_locs}
        pixels_x == {p[2] : p \in pixel_locs}
    IN  <<<<SetMin(pixels_x), SetMin(pixels_y)>>, <<SetMax(pixels_x), SetMax(pixels_y)>>>>

\* bbox_core rounding the midpoint up instead of down
bbox_core_rounds_up(bbox) ==
    <<(bbox[1][2] + bbox[2][2] + 1) \div 2, (bbox[1][1] + bbox[2][1] + 1) \div 2>>

\* the pixel whose score decides a box (find_cars.py:63)
bbox_core(bbox) == <<(bbox[1][2] + bbox[2][2]) \div 2, (bbox[1][1] + bbox[2][1]) \div 2>>

\* the check at the core of a box (find_cars.py:63)
core_is_hot(hm, bbox, threshold) == hm[bbox_core(bbox)] >= threshold

RECURSIVE hot_label_regions_from(_, _, _, _)
hot_label_regions_from(labels, hm, threshold, label_id) ==
    IF label_id > labels[2] THEN <<>>
    ELSE LET bbox == label_bbox(labels, label_id)
             rest == hot_label_regions_from(labels, hm, threshold, label_id + 1)
         IN  IF core_is_hot(hm, bbox, threshold) THEN <<bbox>> \o rest ELSE rest

hot_label_regions(labels, hm, threshold) == hot_label_regions_from(labels, hm, threshold, 1)

\* the heatmap find_cars hands to hot_label_regions (find_cars.py:138)
core_heatmap(fused, fused_thresh) == fused_thresh

----------------------------------------------------------------------------
\* CarFinder (find_cars.py:69-153).

\* thresh_high * 1.5 (find_cars.py:92); exact for the even thresh_high modelled
frame_heat_limit(th) == (th * 3) \div 2

\* the (thresh_low, thresh_high) a CarFinder is constructed with:
\* (0.0, 0.5) and, with the low threshold above the high one, (1.25, 1.0)
Thresholds == {<<0, 2>>, <<5, 4>>}

\* CarFinder.__init__: every argument is stored, none is checked
CarFinderInit ==
    /\ heatmap_history \in 0 .. MaxHistory
    /\ \E t \in Thresholds :
          /\ thresh_low = t[1]
          /\ thresh_high = t[2]
          /\ max_frame_heat = frame_heat_limit(t[2])
    /\ nlast_heatmaps = <<>>
    /\ single = FALSE
    /\ clf_answers = <<>>
    /\ windows = <<>>
    /\ window_scores = <<>>
    /\ current_heatmap = zeros
    /\ heatmap = zeros
    /\ heat_thresh_low = 0
    /\ heat_thresh_high = 0
    /\ bboxes = <<>>
    /\ ncalls = 0
    /\ frames = <<>>

\* no window search is followed on its own during a run of find_cars
WindowSearchIdle ==
    /\ ws_in = [nblocks_x |-> 0, nblocks_y |-> 0, fvb |-> Fvb, x_range |-> x_range,
                y_range |-> <<0, FrameH>>, scale |-> <<1, 1>>, overlap |-> <<0, 1>>]
    /\ ws_pc = "idle"
    /\ ws_step = 0
    /\ ws_blocks = <<>>
    /\ ws_positions = <<>>

Init == CarFinderInit /\ WindowSearchIdle

\* windows, window_scores over every search setting (find_cars.py:111-115)
RECURSIVE search_all(_, _)
search_all(answers, k) ==
    IF k > Len(search_settings) THEN [rects |-> <<>>, mags |-> <<>>]
    ELSE LET w == desired_windows(frame_positions[k], answers[k])
             rest == search_all(answers, k + 1)
         IN  [rects |-> w.rects \o rest.rects, mags |-> w.mags \o rest.mags]

\* find_cars(img, single) on a frame the classifier answers with `answers`
find_cars(is_single, answers) ==
    /\ ncalls < MaxCalls
    /\ LET found == search_all(answers, 1)
           current == cap_heatmap(gen_heatmap(found.rects, found.mags), max_frame_heat)
           nlast == next_history(nlast_heatmaps, current, is_single, heatmap_history)
           fused == fused_heatmap(current, nlast, is_single)
           low == heat_thresh(nlast, thresh_low)
           high == heat_thresh(nlast, thresh_high)
           heatmap_thresh == threshold_heatmap(fused, low)
           labels == label(heatmap_thresh)
       IN  /\ single' = is_single
           /\ clf_answers' = answers
           /\ windows' = found.rects
           /\ window_scores' = found.mags
           /\ current_heatmap' = current
           /\ nlast_heatmaps' = nlast
           /\ heatmap' = fused
           /\ heat_thresh_low' = low
           /\ heat_thresh_high' = high
           /\ bboxes' = hot_label_regions(labels, core_heatmap(fused, heatmap_thresh), high)
           /\ frames' = IF is_single THEN frames ELSE Append(frames, current)
    /\ ncalls' = ncalls + 1
    /\ UNCHANGED <<heatmap_history, thresh_low, thresh_high, max_frame_heat>>
    /\ UNCHANGED ws_vars

FindCarsStreaming == \E answers \in FrameAnswers : find_cars(FALSE, answers)

FindCarsSingle == \E answers \in FrameAnswers : find_cars(TRUE, answers)

Next == FindCarsStreaming \/ FindCarsSingle

Spec == Init /\ [][Next]_vars

----------------------------------------------------------------------------
\* Properties of find_cars, checked under Spec.

\* the last k elements of a sequence
LastN(seq, k) == SubSeq(seq, Len(seq) - k + 1, Len(seq))

RECURSIVE SumOver(_, _)
SumOver(f, S) ==
    IF S = {} THEN 0
    ELSE LET e == CHOOSE x \in S : TRUE
         IN  f[e] + SumOver(f, S \ {e})

\* the value at pixel p of the element-wise sum of a sequence of heatmaps
PixelSum(hms, p) == SumOver([i \in 1 .. Len(hms) |-> hms[i][p]], 1 .. Len(hms))

FusedCount ==
    IF heatmap_history >= 1 THEN Min(Len(frames), heatmap_history) ELSE Len(frames)

\* C2: in a streaming call the effective thresholds are h * thresh_low and
\* h * thresh_high, h being the number of heatmaps summed into the fused
\* heatmap; the first frame of a fresh run has h = 1.
C2_ThresholdsScaleWithFusedCount ==
    (ncalls > 0 /\ ~single) =>
        /\ \A p \in Pixels : heatmap[p] = PixelSum(LastN(frames, FusedCount), p)
        /\ heat_thresh_low = FusedCount * thresh_low
        /\ heat_thresh_high = FusedCount * thresh_high

C2_Witness ==
    /\ ncalls = 1 /\ ~single
    /\ heatmap_history = 2
    /\ thresh_low > 0
    /\ heat_thresh_low = thresh_low /\ heat_thresh_high = thresh_high

\* C3: in a single-image call the fused heatmap is the frame's capped heatmap
\* and the effective thresholds are 1 * thresh_low and 1 * thresh_high.
C3_SingleUsesUnitThresholds ==
    (ncalls > 0 /\ single) =>
        /\ heatmap = current_heatmap
        /\ heat_thresh_low = thresh_low
        /\ heat_thresh_high = thresh_high

\* the floor-divided midpoint of a box, as <<y, x>>
Midpoint(bbox) == <<(bbox[1][2] + bbox[2][2]) \div 2, (bbox[1][1] + bbox[2][1]) \div 2>>

\* the fused heatmap of the last call after the low threshold zeroed it
HeatmapThresh == threshold_heatmap(heatmap, heat_thresh_low)

\* the boxes of the labelled components of the thresholded heatmap
ComponentBoxes ==
    LET labels == label(HeatmapThresh)
    IN  [i \in 1 .. labels[2] |-> label_bbox(labels, i)]

\* bboxes holds exactly the component boxes whose midpoint value in `core`
\* reaches the high threshold
BoxesKeptBy(core) ==
    LET boxes == ComponentBoxes
        kept == {i \in 1 .. Len(boxes) : core[Midpoint(boxes[i])] >= heat_thresh_high}
    IN  /\ Len(bboxes) = Cardinality(kept)
        /\ \A i \in 1 .. Len(boxes) :
              (i \in kept) <=> (\E k \in 1 .. Len(bboxes) : bboxes[k] = boxes[i])

\* C4 (as claimed): a box is kept iff the original fused heatmap, before the
\* low-threshold zeroing, reaches the high threshold at the box's midpoint.
C4_KeptByFusedCore == ncalls > 0 => BoxesKeptBy(heatmap)

\* C4 (amended): a box is kept iff the thresholded heatmap, after the
\* low-threshold zeroing, reaches the high threshold at the box's midpoint.
C4_KeptByThresholdedCore == ncalls > 0 => BoxesKeptBy(HeatmapThresh)

\* a box whose midpoint was zeroed by the low threshold although the fused
\* heat there reaches the high threshold
C4_Witness ==
    /\ ncalls > 0
    /\ heat_thresh_high > 0
    /\ \E i \in 1 .. Len(ComponentBoxes) :
          /\ HeatmapThresh[Midpoint(ComponentBoxes[i])] = 0
          /\ heatmap[Midpoint(ComponentBoxes[i])] >= heat_thresh_high
          /\ \A k \in 1 .. Len(bboxes) : bboxes[k] # ComponentBoxes[i]

\* the sum of the scores of the windows of the last call that cover p
CoverSum(p) ==
    SumOver(window_scores, {i \in 1 .. Len(windows) : InSlice(p, windows[i])})

\* C5: every cell of the per-frame heatmap is min(cap, sum of the scores of
\* the rectangles covering it): additive over overlaps, 0 where uncovered,
\* never above the cap, unchanged below it.
C5_HeatmapIsCappedCoverSum ==
    ncalls > 0 =>
        \A p \in Pixels : current_heatmap[p] = Min(max_frame_heat, CoverSum(p))

C5_Witness ==
    /\ ncalls > 0 /\ ~single
    /\ nlast_heatmaps[Len(nlast_heatmaps)] = current_heatmap
    /\ \E p, q, r \in Pixels :
          /\ CoverSum(p) > max_frame_heat /\ current_heatmap[p] = max_frame_heat
          /\ Cardinality({i \in 1 .. Len(windows) : InSlice(q, windows[i])}) = 1
          /\ current_heatmap[q] = CoverSum(q) /\ current_heatmap[q] < max_frame_heat
          /\ CoverSum(r) = 0 /\ current_heatmap[r] = 0

\* the candidate windows <<search, index>> the classifier scored 1.0
PositiveWindows ==
    {w \in {<<k, i>> : k \in 1 .. Len(clf_answers), i \in 1 .. 4} :
        w[2] <= Len(clf_answers[w[1]]) /\ clf_answers[w[1]][w[2]] = 4}

\* every candidate window is scored 1.0 or -1.0
ScoresAreUnit ==
    \A k \in 1 .. Len(clf_answers) : \A i \in 1 .. Len(clf_answers[k]) :
        clf_answers[k][i] \in {-4, 4}

\* the pixels a box (both corners inside) bounds
BoxPixels(bbox) ==
    {p \in Pixels : /\ bbox[1][2] <= p[1] /\ p[1] <= bbox[2][2]
                    /\ bbox[1][1] <= p[2] /\ p[2] <= bbox[2][1]}

\* the first call on a fresh CarFinder(history=1, thresh_low=0.0,
\* thresh_high=0.5) is a single-image call
EndToEndCase ==
    /\ ncalls = 1 /\ single
    /\ heatmap_history = 1 /\ thresh_low = 0 /\ thresh_high = 2
    /\ ScoresAreUnit

\* C6: in the end-to-end case, one window scored 1.0 and the others -1.0
\* gives exactly one Detection, bounding exactly the pixels of that window;
\* every window scored -1.0 gives no Detection.
C6_EndToEndSingleImage ==
    EndToEndCase =>
        /\ \A w \in PositiveWindows :
              PositiveWindows = {w} =>
                  /\ Len(bboxes) = 1
                  /\ BoxPixels(bboxes[1]) =
                        {p \in Pixels : InSlice(p, frame_positions[w[1]][w[2]])}
        /\ PositiveWindows = {} => bboxes = <<>>

C6_Witness ==
    /\ EndToEndCase
    /\ Cardinality(PositiveWindows) = 1
    /\ Len(bboxes) = 1

\* C7: a malformed configuration (here: history capacity < 1) fails at
\* construction, so it never serves a find_cars call and its history never
\* grows.
C7_MalformedConfigNeverRuns ==
    heatmap_history < 1 => (ncalls = 0 /\ Len(nlast_heatmaps) = 0)

\* C8: a single-image call leaves the heatmap history unchanged.
C8_SingleLeavesHistory ==
    [][(ncalls' = ncalls + 1 /\ single') => nlast_heatmaps' = nlast_heatmaps]_vars

C8_Witness ==
    /\ ncalls >= 2 /\ single
    /\ Len(nlast_heatmaps) = heatmap_history
    /\ heatmap_history >= 1
    /\ heatmap # nlast_heatmaps[Len(nlast_heatmaps)]

----------------------------------------------------------------------------
\* One call of window_search_cars on its own (find_cars.py:155-215), for any
\* block grid, feature geometry, scale and overlap in [0, 1).  The overlaps
\* are sixteenths, which Python's floats represent exactly.

Overlaps == {<<k, 16>> : k \in 0 .. 15}

FeatureBuilders ==
    [window_size : {64}, pixels_per_cell_edge : {8, 16}, cells_per_block_edge : {1, 2}]

WindowSearchInputs ==
    [nblocks_x : 0 .. MaxBlocks, nblocks_y : 0 .. MaxBlocks, fvb : FeatureBuilders,
     x_range : {<<0, 1280>>}, y_range : {<<380, 500>>},
     scale : {<<1, 1>>, <<13, 10>>}, overlap : Overlaps]

InitWS ==
    /\ ws_in \in WindowSearchInputs
    /\ ws_pc = "called"
    /\ ws_step = 0
    /\ ws_blocks = <<>>
    /\ ws_positions = <<>>
    /\ heatmap_history = 1
    /\ thresh_low = 0
    /\ thresh_high = 2
    /\ max_frame_heat = frame_heat_limit(2)
    /\ nlast_heatmaps = <<>>
    /\ single = FALSE
    /\ clf_answers = <<>>
    /\ windows = <<>>
    /\ window_scores = <<>>
    /\ current_heatmap = zeros
    /\ heatmap = zeros
    /\ heat_thresh_low = 0
    /\ heat_thresh_high = 0
    /\ bboxes = <<>>
    /\ ncalls = 0
    /\ frames = <<>>

\* the loops run to their end and every window is collected
WindowSearchReturns ==
    /\ ws_pc = "called"
    /\ cells_per_window_step(ws_in.fvb, ws_in.overlap) # 0
    /\ ws_step' = cells_per_window_step(ws_in.fvb, ws_in.overlap)
    /\ ws_blocks' = window_blocks(ws_in.nblocks_x, ws_in.nblocks_y, ws_in.fvb, ws_step')
    /\ ws_positions' = window_positions(ws_in.nblocks_x, ws_in.nblocks_y, ws_in.fvb,
                                        ws_in.x_range, ws_in.y_range, ws_in.scale, ws_step')
    /\ ws_pc' = "returned"
    /\ UNCHANGED ws_in
    /\ UNCHANGED finder_vars

\* (nblocks_x - blocks_per_window_edge) // 0 raises at the head of the x loop
WindowSearchRaises ==
    /\ ws_pc = "called"
    /\ cells_per_window_step(ws_in.fvb, ws_in.overlap) = 0
    /\ ws_step' = 0
    /\ ws_pc' = "ZeroDivisionError"
    /\ UNCHANGED <<ws_in, ws_blocks, ws_positions>>
    /\ UNCHANGED finder_vars

NextWS == WindowSearchReturns \/ WindowSearchRaises

SpecWS == InitWS /\ [][NextWS]_vars

----------------------------------------------------------------------------
\* Properties of window_search_cars, checked under SpecWS.

\* (1 - overlap) * blocks-per-window, rounded, at least one block
RoundedBlockStep(fvb, window_overlap) ==
    Max(1, RoundOf((window_overlap[2] - window_overlap[1]) * blocks_per_window_edge(fvb),
                   window_overlap[2]))

\* C9: for every overlap in [0, 1) the search completes with the step
\* max(1, round((1 - overlap) * blocks-per-window)); a step that rounds to 0
\* is taken as 1 block and nothing fails.
C9_StepIsRoundedAndPositive ==
    ws_pc # "called" =>
        /\ ws_pc = "returned"
        /\ ws_step = RoundedBlockStep(ws_in.fvb, ws_in.overlap)

\* the offsets k * s with k * s + B <= N
FullGridOffsets(nblocks, fvb, step) ==
    {k * step : k \in {j \in 0 .. nblocks : j * step + blocks_per_window_edge(fvb) <= nblocks}}

\* C10: with step s, a window is generated at every offset k*s with
\* k*s + B <= N, independently in x and y; in particular a grid of exactly
\* one window (N = B) yields one window.
C10_WindowsAtEveryOffset ==
    ws_pc = "returned" =>
        {ws_blocks[i] : i \in 1 .. Len(ws_blocks)} =
            FullGridOffsets(ws_in.nblocks_x, ws_in.fvb, ws_step)
                \X FullGridOffsets(ws_in.nblocks_y, ws_in.fvb, ws_step)

====
